---- MODULE Spec2Model ----
(***************************************************************************)
(* The tagged-text parsers of converter.py (parse_text_for_template_1 and  *)
(* parse_text_for_template_2) as a state machine that scans the input one  *)
(* line at a time.                                                         *)
(*                                                                         *)
(* A Python string is a sequence of atoms.  An atom is one character       *)
(* (" ", "-", ":", "\n", a letter) or a word: a run of characters that     *)
(* neither starts nor ends with white space and holds no ":".  The only    *)
(* atoms that start with "-" are "-" itself and the two job markers.       *)
(* Chars gives the characters of an atom where the code iterates a string. *)
(*                                                                         *)
(* A Python value is a record [kind, str, list]: kind "str" with the text  *)
(* in str, or kind "list" with the elements in list.  An element of a      *)
(* top-level list is [kind, job, chr]: a dict (kind "job") or a one        *)
(* character string (kind "chr").  A dict is a function from its keys.     *)
(*                                                                         *)
(* The variable calls holds two calls of the parsers that run side by      *)
(* side (SpecPair), and request the handler convert_resume_endpoint of     *)
(* main.py (SpecEndpoint); both stand still in the other specifications.   *)
(***************************************************************************)
EXTENDS Naturals, Sequences, FiniteSets, TLC

VARIABLES template, text, resume_data, current_key, status, calls, request

vars == <<template, text, resume_data, current_key, status, calls, request>>

-----------------------------------------------------------------------------
(* Bounds of the exploration *)

MaxLines == 4

\* The lines of each of two calls that run side by side
MaxCallLines == 2

-----------------------------------------------------------------------------
(* Strings *)

SP == " "
DASH == "-"
COLON == ":"
NL == "\n"

JOB_START == <<"---JOB START---">>
JOB_END == <<"---JOB END---">>

Whitespace == {SP, NL}

DashInitial == {DASH, "---JOB START---", "---JOB END---"}

RECURSIVE LStrip(_)
LStrip(s) ==
    IF s # <<>> /\ Head(s) \in Whitespace THEN LStrip(Tail(s)) ELSE s

RECURSIVE RStrip(_)
RStrip(s) ==
    IF s # <<>> /\ s[Len(s)] \in Whitespace
    THEN RStrip(SubSeq(s, 1, Len(s) - 1))
    ELSE s

\* str.strip()
Strip(s) == RStrip(LStrip(s))

\* str.lstrip('- ')
RECURSIVE LStripDashSpace(_)
LStripDashSpace(s) ==
    IF s # <<>> /\ Head(s) \in {DASH, SP} THEN LStripDashSpace(Tail(s)) ELSE s

\* ":" in line
HasColon(line) == \E i \in 1..Len(line) : line[i] = COLON

\* stripped_line.startswith('-')
StartsWithDash(s) == s # <<>> /\ Head(s) \in DashInitial

\* FirstColon with the fault of splitting at the last colon (rsplit).
LastColon(line) ==
    CHOOSE i \in 1..Len(line) :
        line[i] = COLON /\ \A j \in (i + 1)..Len(line) : line[j] # COLON

FirstColon(line) ==
    CHOOSE i \in 1..Len(line) :
        line[i] = COLON /\ \A j \in 1..(i - 1) : line[j] # COLON

\* line.split(":", 1), for a line that holds a colon
SplitKey(line) == SubSeq(line, 1, FirstColon(line) - 1)
SplitValue(line) == SubSeq(line, FirstColon(line) + 1, Len(line))

\* The characters of an atom: what iterating the string yields.
Chars(a) ==
    CASE a = "ab" -> <<"a", "b">>
      [] a = "Built" -> <<"B", "u", "i", "l", "t">>
      [] a = "stuff" -> <<"s", "t", "u", "f", "f">>
      [] a = "Fixed" -> <<"F", "i", "x", "e", "d">>
      [] a = "bugs" -> <<"b", "u", "g", "s">>
      [] a = "Led" -> <<"L", "e", "d">>
      [] a = "Responsibilities" ->
            <<"R", "e", "s", "p", "o", "n", "s", "i", "b", "i", "l", "i", "t", "i", "e", "s">>
      [] OTHER -> <<a>>

RECURSIVE CharsOf(_)
CharsOf(s) == IF s = <<>> THEN <<>> ELSE Chars(Head(s)) \o CharsOf(Tail(s))

-----------------------------------------------------------------------------
(* Values *)

StrVal(s) == [kind |-> "str", str |-> s, list |-> <<>>]
ListVal(l) == [kind |-> "list", str |-> <<>>, list |-> l]

JobElem(d) == [kind |-> "job", job |-> d, chr |-> ""]
ChrElem(c) == [kind |-> "chr", job |-> <<>>, chr |-> c]

EmptyDict == <<>>

\* d[k] = v
Put(d, k, v) == [x \in (DOMAIN d) \cup {k} |-> IF x = k THEN v ELSE d[x]]

\* current_key: None, or a string
None == [some |-> FALSE, key |-> <<>>]
Key(k) == [some |-> TRUE, key |-> k]

\* Python truth of current_key
Truthy(ck) == ck.some /\ ck.key # <<>>

\* Python truth of a value ([] and "" are false)
TruthyVal(v) == IF v.kind = "str" THEN v.str # <<>> ELSE v.list # <<>>

JOBS == <<"Jobs">>
RESPONSIBILITIES == <<"Responsibilities">>
FULLNAME == <<"FullName">>

\* The parser's local state; raised is TRUE once a statement has raised.
State(rd, ck) == [resume_data |-> rd, current_key |-> ck, raised |-> FALSE]
Raise(st) == [st EXCEPT !.raised = TRUE]

\* xs with its last element replaced
SetLast(xs, e) == [xs EXCEPT ![Len(xs)] = e]
Last(xs) == xs[Len(xs)]

-----------------------------------------------------------------------------
(* Operations shared by the two parsers *)

\* resume_data["Jobs"][-1] is there and is a dict
HasLastJob(rd) ==
    /\ JOBS \in DOMAIN rd
    /\ rd[JOBS].kind = "list"
    /\ rd[JOBS].list # <<>>
    /\ Last(rd[JOBS].list).kind = "job"

LastJob(rd) == Last(rd[JOBS].list).job

\* resume_data["Jobs"][-1] = job
WithLastJob(rd, job) ==
    [rd EXCEPT ![JOBS] = ListVal(SetLast(rd[JOBS].list, JobElem(job)))]

\* KeyValue with the fault of leaving out the test for a bullet line.
KeyValueOfBulletToo(line) ==
    IF HasColon(line)
    THEN [some |-> TRUE, key |-> Strip(SplitKey(line)), value |-> Strip(SplitValue(line))]
    ELSE [some |-> FALSE, key |-> <<>>, value |-> <<>>]

\* key_from_line, value_from_line of a line: split at the first colon, both
\* trimmed; none when the line has no colon or is a bullet line.
KeyValue(line) ==
    IF HasColon(line) /\ ~StartsWithDash(Strip(line))
    THEN [some |-> TRUE, key |-> Strip(SplitKey(line)), value |-> Strip(SplitValue(line))]
    ELSE [some |-> FALSE, key |-> <<>>, value |-> <<>>]

\* JobEnd with the fault of leaving current_key as it is.
JobEndKeepsCurrentKey(st) == st

\* stripped_line == "---JOB END---": current_key = None
JobEnd(st) == [st EXCEPT !.current_key = None]

-----------------------------------------------------------------------------
(* parse_text_for_template_1 *)

\* main_keys with the fault of one more key in the list.
main_keysWithDesignation ==
    { FULLNAME, <<"Professional Summary">>, <<"Roles">>, <<"Technologies">>,
      <<"Education">>, <<"Certifications">>, <<"Geographic locale">>,
      <<"Professional and Experience Summary">>, <<"Designation">> }

main_keys ==
    { FULLNAME, <<"Professional Summary">>, <<"Roles">>, <<"Technologies">>,
      <<"Education">>, <<"Certifications">>, <<"Geographic locale">>,
      <<"Professional and Experience Summary">> }

JobFlatKeys1 ==
    { <<"CompanyName">>, <<"Role">>, <<"Duration">>, <<"Client">>,
      <<"BusinessValue">>, <<"Description">> }

JobKeys1 == JobFlatKeys1 \cup {RESPONSIBILITIES}

\* resume_data = {"Jobs": []}; current_key = None
T1Start == State([k \in {JOBS} |-> ListVal(<<>>)], None)

\* current_key = "Jobs"; resume_data["Jobs"].append({})
T1JobStart(st) ==
    IF st.resume_data[JOBS].kind = "list"
    THEN [st EXCEPT !.current_key = Key(JOBS),
                    !.resume_data[JOBS] = ListVal(Append(@.list, JobElem(EmptyDict)))]
    ELSE Raise(st)

\* current_key = key_from_line; resume_data[current_key] = value_from_line
T1MainKey(st, key, value) ==
    [st EXCEPT !.current_key = Key(key),
               !.resume_data = Put(@, key, StrVal(value))]

\* resume_data["Jobs"][-1][key_from_line] = value_from_line
T1JobFlatKey(st, key, value) ==
    IF HasLastJob(st.resume_data)
    THEN [st EXCEPT !.resume_data =
            WithLastJob(@, Put(LastJob(@), key, StrVal(value)))]
    ELSE Raise(st)

\* T1JobResponsibilities with the fault of not creating the missing list.
T1JobResponsibilitiesNoList(st, value) ==
    IF ~HasLastJob(st.resume_data) THEN Raise(st)
    ELSE LET job == LastJob(st.resume_data) IN
         IF value = <<>> \/ RESPONSIBILITIES \notin DOMAIN job
         THEN [st EXCEPT !.current_key = Key(RESPONSIBILITIES)]
         ELSE IF job[RESPONSIBILITIES].kind # "list" THEN Raise(st)
         ELSE [st EXCEPT !.current_key = Key(RESPONSIBILITIES),
                         !.resume_data = WithLastJob(@,
                             [job EXCEPT ![RESPONSIBILITIES] =
                                 ListVal(Append(@.list, value))])]

\* The Responsibilities: line of a job: the list is created when missing and
\* a non-empty value is appended as it is.
T1JobResponsibilities(st, value) ==
    IF ~HasLastJob(st.resume_data) THEN Raise(st)
    ELSE LET job == LastJob(st.resume_data)
             job1 == IF RESPONSIBILITIES \in DOMAIN job THEN job
                     ELSE Put(job, RESPONSIBILITIES, ListVal(<<>>))
         IN IF value = <<>>
            THEN [st EXCEPT !.current_key = Key(RESPONSIBILITIES),
                            !.resume_data = WithLastJob(@, job1)]
            ELSE IF job1[RESPONSIBILITIES].kind # "list" THEN Raise(st)
            ELSE [st EXCEPT !.current_key = Key(RESPONSIBILITIES),
                            !.resume_data = WithLastJob(@,
                                [job1 EXCEPT ![RESPONSIBILITIES] =
                                    ListVal(Append(@.list, value))])]

T1JobKey(st, key, value) ==
    IF key \in JobFlatKeys1 THEN T1JobFlatKey(st, key, value)
    ELSE T1JobResponsibilities(st, value)

\* T1AppendText with the fault of joining without the newline.
T1AppendTextNoNewline(st, stripped) ==
    LET k == st.current_key.key IN
    IF k \in DOMAIN st.resume_data /\ st.resume_data[k].kind = "str"
    THEN [st EXCEPT !.resume_data[k] = StrVal(@.str \o stripped)]
    ELSE Raise(st)

\* resume_data[current_key] += "\n" + line.strip()
T1AppendText(st, stripped) ==
    LET k == st.current_key.key IN
    IF k \in DOMAIN st.resume_data /\ st.resume_data[k].kind = "str"
    THEN [st EXCEPT !.resume_data[k] = StrVal(@.str \o <<NL>> \o stripped)]
    ELSE Raise(st)

\* T1AppendResponsibility with the fault of dropping the bullet dash in the
\* parser (template 1 drops it only when the document is built).
T1AppendResponsibilityStripped(st, stripped) ==
    IF ~HasLastJob(st.resume_data) THEN Raise(st)
    ELSE LET job == LastJob(st.resume_data) IN
         IF RESPONSIBILITIES \notin DOMAIN job THEN st
         ELSE IF job[RESPONSIBILITIES].kind # "list" THEN Raise(st)
         ELSE [st EXCEPT !.resume_data = WithLastJob(@,
                    [job EXCEPT ![RESPONSIBILITIES] =
                        ListVal(Append(@.list, LStripDashSpace(stripped)))])]

\* resume_data["Jobs"][-1][current_key].append(stripped_line), when the last
\* job has a Responsibilities entry
T1AppendResponsibility(st, stripped) ==
    IF ~HasLastJob(st.resume_data) THEN Raise(st)
    ELSE LET job == LastJob(st.resume_data) IN
         IF RESPONSIBILITIES \notin DOMAIN job THEN st
         ELSE IF job[RESPONSIBILITIES].kind # "list" THEN Raise(st)
         ELSE [st EXCEPT !.resume_data = WithLastJob(@,
                    [job EXCEPT ![RESPONSIBILITIES] =
                        ListVal(Append(@.list, stripped))])]

\* One pass of the loop body of parse_text_for_template_1
T1Line(st, line) ==
    LET stripped == Strip(line)
        kv == KeyValue(line)
        ck == st.current_key
    IN  IF stripped = JOB_START THEN T1JobStart(st)
        ELSE IF stripped = JOB_END THEN JobEnd(st)
        ELSE IF kv.some /\ kv.key \in main_keys THEN T1MainKey(st, kv.key, kv.value)
        ELSE IF ck = Key(JOBS) /\ kv.some /\ kv.key \in JobKeys1
             THEN T1JobKey(st, kv.key, kv.value)
        ELSE IF ck.some /\ ck.key \in main_keys /\ ck.key # FULLNAME /\ stripped # <<>>
             THEN T1AppendText(st, stripped)
        ELSE IF ck = Key(RESPONSIBILITIES) /\ stripped # <<>>
             THEN T1AppendResponsibility(st, stripped)
        ELSE st

-----------------------------------------------------------------------------
(* parse_text_for_template_2 *)

FreeTextKeys2 ==
    { <<"ProfessionalOverviewSummary">>, <<"Education">>, <<"Publications">>,
      <<"ProfessionalTrainingCertifications">>, <<"GeographicLocale">>,
      <<"ProfessionalOverviewTable">>, <<"KeyEngagementsTable">> }

JobFlatKeys2 == { <<"CompanyName">>, <<"Role">>, <<"Duration">>, <<"Client">> }

\* T2Start with the fault of starting from {"Jobs": []} as template 1 does.
T2StartWithJobs == State([k \in {JOBS} |-> ListVal(<<>>)], None)

\* resume_data = {}; current_key = None
T2Start == State(EmptyDict, None)

\* resume_data.get("Jobs"), as a truth value
T2GetJobs(rd) == JOBS \in DOMAIN rd /\ TruthyVal(rd[JOBS])

\* current_key = "Jobs"; resume_data["Jobs"] is created when missing;
\* resume_data["Jobs"].append({}) raises when the value is a string.
T2JobStart(st) ==
    LET rd1 == IF JOBS \in DOMAIN st.resume_data THEN st.resume_data
               ELSE Put(st.resume_data, JOBS, ListVal(<<>>))
    IN  IF rd1[JOBS].kind = "list"
        THEN [st EXCEPT !.current_key = Key(JOBS),
                        !.resume_data = [rd1 EXCEPT ![JOBS] =
                            ListVal(Append(@.list, JobElem(EmptyDict)))]]
        ELSE Raise(st)

\* current_key = key; resume_data[current_key] = value.strip() + "\n"
T2FreeTextKey(st, key, value) ==
    [st EXCEPT !.current_key = Key(key),
               !.resume_data = Put(@, key, StrVal(value \o <<NL>>))]

\* resume_data["Jobs"][-1][key] = value.strip()
T2JobFlatKey(st, key, value) ==
    IF HasLastJob(st.resume_data)
    THEN [st EXCEPT !.resume_data =
            WithLastJob(@, Put(LastJob(@), key, StrVal(value)))]
    ELSE Raise(st)

\* The Responsibilities: line of a job: the list is created when missing and
\* a non-empty value is appended without its leading dashes and spaces.
T2JobResponsibilities(st, value) ==
    IF ~HasLastJob(st.resume_data) THEN Raise(st)
    ELSE LET job == LastJob(st.resume_data)
             job1 == IF RESPONSIBILITIES \in DOMAIN job THEN job
                     ELSE Put(job, RESPONSIBILITIES, ListVal(<<>>))
         IN IF value = <<>>
            THEN [st EXCEPT !.current_key = Key(RESPONSIBILITIES),
                            !.resume_data = WithLastJob(@, job1)]
            ELSE IF job1[RESPONSIBILITIES].kind # "list" THEN Raise(st)
            ELSE [st EXCEPT !.current_key = Key(RESPONSIBILITIES),
                            !.resume_data = WithLastJob(@,
                                [job1 EXCEPT ![RESPONSIBILITIES] =
                                    ListVal(Append(@.list, LStripDashSpace(value)))])]

\* The branch taken for a colon line while current_key == "Jobs" and Jobs is
\* non-empty: a job flat key, Responsibilities, or nothing.
T2JobKey(st, key, value) ==
    IF key \in JobFlatKeys2 THEN T2JobFlatKey(st, key, value)
    ELSE IF key = RESPONSIBILITIES THEN T2JobResponsibilities(st, value)
    ELSE st

\* T2SimpleKey with the fault of dropping the field, as template 1 does.
T2SimpleKeyDropsField(st, key, value) == [st EXCEPT !.current_key = None]

\* T2SimpleKey with the fault of not resetting current_key.
T2SimpleKeyKeepsCurrentKey(st, key, value) ==
    [st EXCEPT !.resume_data = Put(@, key, StrVal(value))]

\* resume_data[key] = value.strip(); current_key = None
T2SimpleKey(st, key, value) ==
    [st EXCEPT !.current_key = None,
               !.resume_data = Put(@, key, StrVal(value))]

\* T2AppendResponsibility with the fault of keeping the bullet dash.
T2AppendResponsibilityKeepsDash(st, stripped) ==
    IF stripped = <<>> THEN st
    ELSE IF ~HasLastJob(st.resume_data) THEN Raise(st)
    ELSE LET job == LastJob(st.resume_data) IN
         IF RESPONSIBILITIES \notin DOMAIN job THEN Raise(st)
         ELSE IF job[RESPONSIBILITIES].kind # "list" THEN Raise(st)
         ELSE [st EXCEPT !.resume_data = WithLastJob(@,
                    [job EXCEPT ![RESPONSIBILITIES] =
                        ListVal(Append(@.list, stripped))])]

\* resume_data["Jobs"][-1][current_key].append(stripped_line.lstrip('- ')),
\* for a non-empty stripped line
T2AppendResponsibility(st, stripped) ==
    IF stripped = <<>> THEN st
    ELSE IF ~HasLastJob(st.resume_data) THEN Raise(st)
    ELSE LET job == LastJob(st.resume_data) IN
         IF RESPONSIBILITIES \notin DOMAIN job THEN Raise(st)
         ELSE IF job[RESPONSIBILITIES].kind # "list" THEN Raise(st)
         ELSE [st EXCEPT !.resume_data = WithLastJob(@,
                    [job EXCEPT ![RESPONSIBILITIES] =
                        ListVal(Append(@.list, LStripDashSpace(stripped)))])]

\* resume_data[current_key] += line + "\n": a string grows by the line, a
\* list grows by one element for each character of the line.
T2AppendText(st, line) ==
    LET k == st.current_key.key
        v == st.resume_data[k]
        chars == CharsOf(line \o <<NL>>)
    IN  IF v.kind = "str"
        THEN [st EXCEPT !.resume_data[k] = StrVal(v.str \o line \o <<NL>>)]
        ELSE [st EXCEPT !.resume_data[k] =
                ListVal(v.list \o [i \in 1..Len(chars) |-> ChrElem(chars[i])])]

\* One pass of the loop body of parse_text_for_template_2
T2Line(st, line) ==
    LET stripped == Strip(line)
        kv == KeyValue(line)
        ck == st.current_key
    IN  IF stripped = JOB_START THEN T2JobStart(st)
        ELSE IF stripped = JOB_END THEN JobEnd(st)
        ELSE IF kv.some
             THEN IF kv.key \in FreeTextKeys2 THEN T2FreeTextKey(st, kv.key, kv.value)
                  ELSE IF ck = Key(JOBS) /\ T2GetJobs(st.resume_data)
                       THEN T2JobKey(st, kv.key, kv.value)
                  ELSE T2SimpleKey(st, kv.key, kv.value)
        ELSE IF Truthy(ck)
             THEN IF ck = Key(RESPONSIBILITIES) /\ T2GetJobs(st.resume_data)
                  THEN T2AppendResponsibility(st, stripped)
                  ELSE IF ck.key \in DOMAIN st.resume_data THEN T2AppendText(st, line)
                  ELSE st
        ELSE st

-----------------------------------------------------------------------------
(* Input lines *)

LineJobStart == JOB_START
LineJobEnd == JOB_END
LineBlank == <<>>
LineFullName == <<"FullName", COLON, SP, "Jane">>
LineEducation == <<"Education", COLON>>
LineText == <<SP, "ab", SP>>
LineRole == <<"Role", COLON, SP, "a", COLON, SP, "b">>
LineRoleAgain == <<"Role", COLON, SP, "c">>
LineResponsibilities == <<"Responsibilities", COLON>>
LineBullet == <<DASH, SP, "Led", COLON, SP, "x">>
LineRandomField == <<"RandomField", COLON, SP, "x">>
LineJobsKey == <<"Jobs", COLON, SP, "x">>

Catalog ==
    { LineJobStart, LineJobEnd, LineBlank, LineFullName, LineEducation,
      LineText, LineRole, LineRoleAgain, LineResponsibilities, LineBullet,
      LineRandomField, LineJobsKey }

\* Key: value lines of top-level and job keys, with colons in the values;
\* the inputs of SpecKeys are made of these.
LineDescription ==
    <<"Description", COLON, SP, "revenue", SP, "growth", COLON, SP, "20%">>
LineEducationValue == <<"Education", COLON, SP, "a", COLON, SP, "b">>
LineExperienceSummary ==
    <<"Professional and Experience Summary", COLON, SP, "x">>
LineDesignation == <<"Designation", COLON, SP, "Lead">>

KeyCatalog ==
    { LineJobStart, LineJobEnd, LineFullName, LineRole, LineResponsibilities,
      LineDescription, LineEducationValue, LineExperienceSummary,
      LineDesignation }

\* The lines of a tagged text as the prompts ask for it: a name, a free-text
\* field and its lines, job blocks with a flat field, a Responsibilities:
\* header, bullets and plain lines; the inputs of SpecCore are made of these.
CoreCatalog ==
    { LineJobStart, LineJobEnd, LineBlank, LineFullName, LineEducation,
      LineText, LineRole, LineResponsibilities, LineBullet }

\* The end-to-end input of two job blocks; its sub-texts (some lines left
\* out, the order kept) are the inputs of SpecDoc.
Document ==
    << <<"FullName", COLON, SP, "Jane", SP, "Doe">>,
       JOB_START,
       <<"CompanyName", COLON, SP, "Acme">>,
       <<"Role", COLON, SP, "Engineer">>,
       <<"Responsibilities", COLON>>,
       <<DASH, SP, "Built", SP, "stuff">>,
       <<DASH, SP, "Fixed", SP, "bugs">>,
       JOB_END,
       JOB_START,
       <<"CompanyName", COLON, SP, "Beta">>,
       <<"Responsibilities", COLON>>,
       <<DASH, SP, "Led", COLON, SP, "x">>,
       JOB_END >>

DocLines == { Document[i] : i \in 1..Len(Document) }

\* t is d with some lines left out
RECURSIVE IsSubText(_, _)
IsSubText(t, d) ==
    IF t = <<>> THEN TRUE
    ELSE IF d = <<>> THEN FALSE
    ELSE IF Head(t) = Head(d) THEN IsSubText(Tail(t), Tail(d))
    ELSE IsSubText(t, Tail(d))

-----------------------------------------------------------------------------
(* The scan *)

Start(tpl) == IF tpl = 1 THEN T1Start ELSE T2Start

Line(tpl, st, line) == IF tpl = 1 THEN T1Line(st, line) ELSE T2Line(st, line)

\* The parser's state after the lines of t, from the state st
RECURSIVE Scan(_, _, _)
Scan(tpl, st, t) ==
    IF t = <<>> \/ st.raised THEN st
    ELSE Scan(tpl, Line(tpl, st, Head(t)), Tail(t))

\* parse_text_for_template_<tpl>(t): the state at the return, or raised
Parse(tpl, t) == Scan(tpl, Start(tpl), t)

\* No other call of a parser and no request is in progress.
NoCalls == <<>>
NoResponse == [kind |-> "none", status_code |-> 0, detail |-> ""]
NoRequest ==
    [pc |-> "none", filename |-> "", template_id |-> "", text |-> "",
     gemini_text |-> <<>>, docx_buffer |-> FALSE, response |-> NoResponse]

Here == [resume_data |-> resume_data, current_key |-> current_key,
         raised |-> status = "raised"]

Init ==
    /\ template \in {1, 2}
    /\ text = <<>>
    /\ resume_data = Start(template).resume_data
    /\ current_key = None
    /\ status = "scanning"
    /\ calls = NoCalls
    /\ request = NoRequest

\* One iteration of `for line in lines`
Step(line) ==
    /\ status = "scanning"
    /\ LET st == Line(template, Here, line) IN
        /\ resume_data' = st.resume_data
        /\ current_key' = st.current_key
        /\ status' = IF st.raised THEN "raised" ELSE "scanning"
    /\ text' = Append(text, line)
    /\ UNCHANGED <<template, calls, request>>

ParseLine1(line) == template = 1 /\ Step(line)

ParseLine2(line) == template = 2 /\ Step(line)

\* return resume_data, after the last line (text.split always gives a line)
Return ==
    /\ status = "scanning"
    /\ text # <<>>
    /\ status' = "returned"
    /\ UNCHANGED <<template, text, resume_data, current_key, calls, request>>

Next ==
    \/ \E line \in Catalog : Len(text) < MaxLines /\ ParseLine1(line)
    \/ \E line \in Catalog : Len(text) < MaxLines /\ ParseLine2(line)
    \/ Return

Spec == Init /\ [][Next]_vars

InDocument(line) == IsSubText(Append(text, line), Document)

NextDoc ==
    \/ \E line \in DocLines : InDocument(line) /\ ParseLine1(line)
    \/ \E line \in DocLines : InDocument(line) /\ ParseLine2(line)
    \/ Return

SpecDoc == Init /\ [][NextDoc]_vars

NextKeys ==
    \/ \E line \in KeyCatalog : Len(text) < MaxLines /\ ParseLine1(line)
    \/ \E line \in KeyCatalog : Len(text) < MaxLines /\ ParseLine2(line)
    \/ Return

SpecKeys == Init /\ [][NextKeys]_vars

NextCore ==
    \/ \E line \in CoreCatalog : Len(text) < MaxLines /\ ParseLine1(line)
    \/ \E line \in CoreCatalog : Len(text) < MaxLines /\ ParseLine2(line)
    \/ Return

SpecCore == Init /\ [][NextCore]_vars

-----------------------------------------------------------------------------
(* Two calls of the parsers side by side *)

\* Each call has the locals of its own frame: text, resume_data,
\* current_key. The parsers name no global and no attribute of a shared
\* object, and every value they create is new in the call.
Calls == {1, 2}

PairCatalog ==
    { LineJobStart, LineEducation, LineText, LineResponsibilities, LineRole }

NewCall(tpl) ==
    [template |-> tpl, text |-> <<>>,
     resume_data |-> Start(tpl).resume_data,
     current_key |-> Start(tpl).current_key, status |-> "scanning"]

\* The state of the scan of call c
CallHere(c) ==
    [resume_data |-> calls[c].resume_data,
     current_key |-> calls[c].current_key,
     raised |-> calls[c].status = "raised"]

Idle ==
    /\ template = 1
    /\ text = <<>>
    /\ resume_data = Start(1).resume_data
    /\ current_key = None
    /\ status = "scanning"

InitPair ==
    /\ Idle
    /\ request = NoRequest
    /\ calls \in { [c \in Calls |-> NewCall(tpl[c])] : tpl \in [Calls -> {1, 2}] }

\* CallStep with the fault of a current_key that the two calls share, as a
\* module-level variable would be.
CallStepSharedKey(c, line) ==
    /\ calls[c].status = "scanning"
    /\ LET o == CHOOSE x \in Calls : x # c
           st == Line(calls[c].template,
                      [CallHere(c) EXCEPT !.current_key = calls[o].current_key],
                      line)
       IN calls' = [calls EXCEPT
                ![c].resume_data = st.resume_data,
                ![c].current_key = st.current_key,
                ![c].status = IF st.raised THEN "raised" ELSE "scanning",
                ![c].text = Append(@, line),
                ![o].current_key = st.current_key]
    /\ UNCHANGED <<template, text, resume_data, current_key, status, request>>

\* One iteration of `for line in lines` in call c
CallStep(c, line) ==
    /\ calls[c].status = "scanning"
    /\ LET st == Line(calls[c].template, CallHere(c), line) IN
         calls' = [calls EXCEPT
                ![c].resume_data = st.resume_data,
                ![c].current_key = st.current_key,
                ![c].status = IF st.raised THEN "raised" ELSE "scanning",
                ![c].text = Append(@, line)]
    /\ UNCHANGED <<template, text, resume_data, current_key, status, request>>

\* return resume_data in call c
CallReturn(c) ==
    /\ calls[c].status = "scanning"
    /\ calls[c].text # <<>>
    /\ calls' = [calls EXCEPT ![c].status = "returned"]
    /\ UNCHANGED <<template, text, resume_data, current_key, status, request>>

NextPair ==
    \/ \E c \in Calls, line \in PairCatalog :
          Len(calls[c].text) < MaxCallLines /\ CallStep(c, line)
    \/ \E c \in Calls : CallReturn(c)

SpecPair == InitPair /\ [][NextPair]_vars

-----------------------------------------------------------------------------
(* convert_resume_endpoint of main.py *)

\* The request is a record: pc is the statement the handler stands at, text
\* is "" or "text" (a non-empty string), docx_buffer is whether the buffer
\* is set, response is what leaves the handler: a StreamingResponse, an
\* HTTPException raised by the handler, or another exception that passes
\* through it.
FileKinds == {".pdf", ".docx", "other"}
TemplateIds == {"template1", "template2", "other"}

\* What call_gemini_api returns: tagged texts, one of which the template-2
\* parser raises on, and the text it returns for a blocked response.
GeminiTexts ==
    { <<LineFullName>>,
      <<LineJobStart, LineBlank, LineRole, LineJobEnd>>,
      <<LineFullName, LineJobStart, LineRole, LineJobEnd>>,
      << <<"Error", COLON, SP, "Could not generate content.">> >> }

HTTPException(code, detail) ==
    [kind |-> "HTTPException", status_code |-> code, detail |-> detail]
Unhandled(what) == [kind |-> "exception", status_code |-> 0, detail |-> what]
StreamingResponse ==
    [kind |-> "stream", status_code |-> 200, detail |-> "docx"]

Leave(resp) == request' = [request EXCEPT !.pc = "done", !.response = resp]
Goto(pc) == request' = [request EXCEPT !.pc = pc]

ParserIdle == UNCHANGED <<template, text, resume_data, current_key, status, calls>>

InitEndpoint == Idle /\ calls = NoCalls /\ request = NoRequest

\* The request arrives with a file and a template_id; file.read()
Receive ==
    /\ request.pc = "none"
    /\ \E f \in FileKinds, t \in TemplateIds :
          request' = [request EXCEPT !.pc = "extract", !.filename = f,
                                     !.template_id = t]
    /\ ParserIdle

\* extract_text_from_pdf / extract_text_from_docx, called outside any try:
\* the extractor returns a text, returns "" or raises.
ExtractText ==
    /\ request.pc = "extract"
    /\ request.filename \in {".pdf", ".docx"}
    /\ \/ Leave(Unhandled("extractor"))
       \/ \E t \in {"", "text"} :
             request' = [request EXCEPT !.pc = "check_text", !.text = t]
    /\ ParserIdle

\* else: raise HTTPException(400, "Unsupported file type...")
UnsupportedFile ==
    /\ request.pc = "extract"
    /\ request.filename \notin {".pdf", ".docx"}
    /\ Leave(HTTPException(400, "Unsupported file type"))
    /\ ParserIdle

\* if not text: raise HTTPException(400, ...); docx_buffer = None
CheckText ==
    /\ request.pc = "check_text"
    /\ IF request.text = ""
       THEN Leave(HTTPException(400, "Could not extract text"))
       ELSE request' = [request EXCEPT !.pc = "generate", !.docx_buffer = FALSE]
    /\ ParserIdle

\* get_prompt_for_template_<n>; call_gemini_api, which returns a text or
\* raises; neither branch is taken for another template_id.
Generate ==
    /\ request.pc = "generate"
    /\ IF request.template_id \notin {"template1", "template2"}
       THEN Goto("check_buffer")
       ELSE \/ Leave(HTTPException(500, "Error during conversion"))
            \/ \E g \in GeminiTexts :
                  request' = [request EXCEPT !.pc = "parse", !.gemini_text = g]
    /\ ParserIdle

TemplateOf(id) == IF id = "template1" THEN 1 ELSE 2

\* data = parse_text_for_template_<n>(gemini_text), inside the try
ParseText ==
    /\ request.pc = "parse"
    /\ IF Parse(TemplateOf(request.template_id), request.gemini_text).raised
       THEN Leave(HTTPException(500, "Error during conversion"))
       ELSE Goto("build")
    /\ ParserIdle

\* docx_buffer = build_docx_for_template_<n>(data), inside the try: the
\* builder returns a buffer or raises.
BuildDocx ==
    /\ request.pc = "build"
    /\ \/ Leave(HTTPException(500, "Error during conversion"))
       \/ request' = [request EXCEPT !.pc = "check_buffer", !.docx_buffer = TRUE]
    /\ ParserIdle

\* if not docx_buffer: raise HTTPException(500, ...)
CheckBuffer ==
    /\ request.pc = "check_buffer"
    /\ IF request.docx_buffer THEN Goto("respond")
       ELSE Leave(HTTPException(500, "Failed to generate DOCX buffer"))
    /\ ParserIdle

\* return StreamingResponse(docx_buffer, ...)
Respond ==
    /\ request.pc = "respond"
    /\ Leave(StreamingResponse)
    /\ ParserIdle

NextEndpoint ==
    \/ Receive
    \/ ExtractText
    \/ UnsupportedFile
    \/ CheckText
    \/ Generate
    \/ ParseText
    \/ BuildDocx
    \/ CheckBuffer
    \/ Respond

SpecEndpoint == InitEndpoint /\ [][NextEndpoint]_vars

-----------------------------------------------------------------------------
(* Vocabulary of the properties *)

IsJobStart(line) == Strip(line) = JOB_START
IsJobEnd(line) == Strip(line) = JOB_END
IsMarker(line) == IsJobStart(line) \/ IsJobEnd(line)

Prefix(t, n) == SubSeq(t, 1, n)

\* t without its i-th line
Without(t, i) == SubSeq(t, 1, i - 1) \o SubSeq(t, i + 1, Len(t))

MarkerPositions(t) == { i \in 1..Len(t) : IsMarker(t[i]) }

\* A job block is open after the lines of t: the last marker is a start.
JobOpen(t) ==
    \E i \in MarkerPositions(t) :
        /\ IsJobStart(t[i])
        /\ \A j \in MarkerPositions(t) : j <= i

\* The number of start markers among the lines of t
StartsIn(t) == Cardinality({ i \in 1..Len(t) : IsJobStart(t[i]) })

\* Every block is a start line, lines that are no markers, an end line.
WellFormedBlocks(t) ==
    /\ ~JobOpen(t)
    /\ \A i \in MarkerPositions(t) :
          IsJobStart(t[i]) <=> ~JobOpen(Prefix(t, i - 1))

\* The lines of the i-th block of t
BlockLines(t, i) ==
    { j \in 1..Len(t) :
        /\ ~IsMarker(t[j])
        /\ JobOpen(Prefix(t, j))
        /\ StartsIn(Prefix(t, j)) = i }

FreeTextKeys(tpl) == IF tpl = 1 THEN main_keys \ {FULLNAME} ELSE FreeTextKeys2
JobFlatKeys(tpl) == IF tpl = 1 THEN JobFlatKeys1 ELSE JobFlatKeys2
JobKeys(tpl) == JobFlatKeys(tpl) \cup {RESPONSIBILITIES}

\* The recognized job keys on the key: value lines of the i-th block
BlockKeys(tpl, t, i) ==
    { KeyValue(t[j]).key :
        j \in { k \in BlockLines(t, i) :
                  KeyValue(t[k]).some /\ KeyValue(t[k]).key \in JobKeys(tpl) } }

\* A job record: a dict whose Responsibilities, when there, is a list
IsJobRecord(e) ==
    /\ e.kind = "job"
    /\ RESPONSIBILITIES \in DOMAIN e.job => e.job[RESPONSIBILITIES].kind = "list"

-----------------------------------------------------------------------------
(* C1 - C3 *)

\* C1: on every input both parsers return a record; no statement of either
\* parser raises an exception.
C1_NeverRaises == status # "raised"

\* The one-line reading of C1 for template 1 alone, which the code meets.
C1_Template1NeverRaises == template = 1 => status # "raised"

\* C2: while parsing and at the return, Jobs (when present) is a list whose
\* every element is a job record, and the Responsibilities of every job is
\* a list: no line puts another element into Jobs or makes Jobs a string.
C2_JobsIsListOfJobRecords ==
    (status # "raised" /\ JOBS \in DOMAIN resume_data) =>
        /\ resume_data[JOBS].kind = "list"
        /\ \A i \in 1..Len(resume_data[JOBS].list) :
              IsJobRecord(resume_data[JOBS].list[i])

\* C3: an input of N >= 1 well-formed job blocks returns a Jobs list of
\* exactly N job records, the i-th holding exactly the recognized job fields
\* of the key: value lines between the i-th pair of markers.
C3_BlocksYieldJobs ==
    (status = "returned" /\ WellFormedBlocks(text) /\ StartsIn(text) >= 1) =>
        /\ JOBS \in DOMAIN resume_data
        /\ resume_data[JOBS].kind = "list"
        /\ Len(resume_data[JOBS].list) = StartsIn(text)
        /\ \A i \in 1..StartsIn(text) :
              /\ resume_data[JOBS].list[i].kind = "job"
              /\ DOMAIN resume_data[JOBS].list[i].job = BlockKeys(template, text, i)

-----------------------------------------------------------------------------
(* C4 *)

\* A bullet line: "- text", white space around it allowed
IsBullet(line) == Strip(line) # <<>> /\ Head(Strip(line)) = DASH

\* The line "Responsibilities:" with nothing after the colon
IsResponsibilitiesHeader(line) ==
    /\ KeyValue(line).some
    /\ KeyValue(line).key = RESPONSIBILITIES
    /\ KeyValue(line).value = <<>>

\* Line r of t is the first Responsibilities: header of a job block whose
\* earlier lines are all job flat-key lines, and the lines r+1..m are bullets.
HeaderThenBullets(tpl, t, r, m) ==
    /\ IsResponsibilitiesHeader(t[r])
    /\ \E s \in 1..(r - 1) :
          /\ IsJobStart(t[s])
          /\ \A j \in (s + 1)..(r - 1) :
                KeyValue(t[j]).some /\ KeyValue(t[j]).key \in JobFlatKeys(tpl)
    /\ \A j \in (r + 1)..m : IsBullet(t[j])

\* The text without a closing ---JOB END--- line
BeforeJobEnd(t) ==
    IF t # <<>> /\ IsJobEnd(t[Len(t)]) THEN Len(t) - 1 ELSE Len(t)

Same(s) == s

EndToEndText == Prefix(Document, 8)

\* The record of the end-to-end input, its bullets stored as Entry(bullet)
EndToEndRecord(Entry(_)) ==
    (FULLNAME :> StrVal(<<"Jane", SP, "Doe">>))
    @@ (JOBS :> ListVal(<< JobElem(
            (<<"CompanyName">> :> StrVal(<<"Acme">>))
            @@ (<<"Role">> :> StrVal(<<"Engineer">>))
            @@ (RESPONSIBILITIES :> ListVal(
                    << Entry(<<DASH, SP, "Built", SP, "stuff">>),
                       Entry(<<DASH, SP, "Fixed", SP, "bugs">>) >>))) >>))

\* Template 1: the bullets after the Responsibilities: header of a job are
\* the job's Responsibilities list, in input order, each stored as
\* Entry(trimmed line); and the end-to-end input gives EndToEndRecord.
BulletsBecomeResponsibilities(Entry(_)) ==
    (template = 1 /\ status # "raised") =>
        /\ \A r \in 1..Len(text) :
              HeaderThenBullets(1, text, r, BeforeJobEnd(text)) =>
                  /\ HasLastJob(resume_data)
                  /\ RESPONSIBILITIES \in DOMAIN LastJob(resume_data)
                  /\ LastJob(resume_data)[RESPONSIBILITIES] =
                        ListVal([j \in 1..(BeforeJobEnd(text) - r) |->
                                    Entry(Strip(text[r + j]))])
        /\ (status = "returned" /\ text = EndToEndText) =>
              resume_data = EndToEndRecord(Entry)

\* C4 (as amended): with the template-1 parser the bullet lines after a job's
\* Responsibilities: header are its Responsibilities list in input order,
\* each entry the trimmed line with its bullet dash kept; the end-to-end
\* input parses to FullName "Jane Doe" and one job with CompanyName "Acme",
\* Role "Engineer", Responsibilities ["- Built stuff", "- Fixed bugs"].
C4_BulletsKeptWithDash == BulletsBecomeResponsibilities(Same)

\* C4 as claimed: the entries are the bullet texts with the dash stripped.
C4_BulletsDashStripped == BulletsBecomeResponsibilities(LStripDashSpace)

\* The end-to-end input has been parsed by template 1.
C4_Witness == template = 1 /\ status = "returned" /\ text = EndToEndText

-----------------------------------------------------------------------------
(* C5 *)

\* The keys that name a top-level field of the variant's schema
TopLevelKeys(tpl) ==
    IF tpl = 1 THEN main_keys
    ELSE FreeTextKeys2 \cup {FULLNAME, <<"Designation">>}

\* A non-blank line that is no marker and holds no colon
IsPlain(line) == Strip(line) # <<>> /\ ~IsMarker(line) /\ ~HasColon(line)

\* A key: line of a free-text field, nothing after the colon
IsFreeTextHeader(tpl, line) ==
    /\ KeyValue(line).some
    /\ KeyValue(line).key \in FreeTextKeys(tpl)
    /\ KeyValue(line).value = <<>>

\* A key: value line of a top-level key other than k
IsOtherTopLevelKeyLine(tpl, line, k) ==
    /\ KeyValue(line).some
    /\ KeyValue(line).key \in TopLevelKeys(tpl)
    /\ KeyValue(line).key # k

\* Lines r+1..m of t are plain and follow the free-text header at r; the
\* text ends there or with one more line, a key line of another field.
HeaderThenPlainLines(tpl, t, r, m) ==
    /\ 1 <= r /\ r < m /\ m <= Len(t)
    /\ \A j \in (r + 1)..m : IsPlain(t[j])
    /\ IsFreeTextHeader(tpl, t[r])
    /\ \/ m = Len(t)
       \/ m + 1 = Len(t) /\ IsOtherTopLevelKeyLine(tpl, t[m + 1], KeyValue(t[r]).key)

\* The lines trimmed and joined by single newlines
RECURSIVE JoinTrimmed(_)
JoinTrimmed(ls) ==
    IF ls = <<>> THEN <<>>
    ELSE IF Len(ls) = 1 THEN Strip(ls[1])
    ELSE Strip(ls[1]) \o <<NL>> \o JoinTrimmed(Tail(ls))

\* Each line trimmed, with a newline before it
RECURSIVE NewlineBeforeEach(_)
NewlineBeforeEach(ls) ==
    IF ls = <<>> THEN <<>>
    ELSE <<NL>> \o Strip(ls[1]) \o NewlineBeforeEach(Tail(ls))

\* Each line as it is, with a newline after it
RECURSIVE NewlineAfterEach(_)
NewlineAfterEach(ls) ==
    IF ls = <<>> THEN <<>>
    ELSE ls[1] \o <<NL>> \o NewlineAfterEach(Tail(ls))

\* What the variant stores for an empty header followed by the lines ls
Accumulated(tpl, ls) ==
    IF tpl = 1 THEN NewlineBeforeEach(ls) ELSE <<NL>> \o NewlineAfterEach(ls)

\* The free-text field of every header followed by plain lines is Value(ls)
FreeTextFieldIs(Value(_, _)) ==
    status # "raised" =>
        \A m \in {Len(text) - 1, Len(text)} : \A r \in 1..(m - 1) :
            HeaderThenPlainLines(template, text, r, m) =>
                /\ KeyValue(text[r]).key \in DOMAIN resume_data
                /\ resume_data[KeyValue(text[r]).key] =
                        StrVal(Value(template, SubSeq(text, r + 1, m)))

ClaimedValue(tpl, ls) == JoinTrimmed(ls)

\* C5 (as amended): a free-text key line with an empty value followed by
\* k >= 1 plain lines (and then a key line of another top-level field) gives
\* the field, in template 1, the k trimmed lines each preceded by a newline
\* (so the value starts with a newline and has no trailing one) and, in
\* template 2, a newline followed by the k lines untrimmed, each followed by
\* a newline.
C5_FreeTextAccumulated == FreeTextFieldIs(Accumulated)

\* C5 as claimed: the k trimmed lines joined by single newlines, with no
\* leading and no trailing newline.
C5_FreeTextJoinedTrimmed == FreeTextFieldIs(ClaimedValue)

\* Two plain lines after a free-text header, closed by another key line
C5_Witness ==
    /\ status = "returned"
    /\ Len(text) = 4
    /\ HeaderThenPlainLines(template, text, 1, 3)

-----------------------------------------------------------------------------
(* C6 *)

\* The line that the step from this state to the next one has processed
LineRead == text'[Len(text')]

\* This step processes one line while the scan is going on.
ReadsLine == status = "scanning" /\ Len(text') = Len(text) + 1

\* The last job of rd with e appended to its Responsibilities
WithResponsibility(rd, e) ==
    WithLastJob(rd, [LastJob(rd) EXCEPT ![RESPONSIBILITIES] =
                        ListVal(Append(@.list, e))])

\* The list entry a variant makes of a trimmed line
EntryOf(tpl, stripped) == IF tpl = 1 THEN stripped ELSE LStripDashSpace(stripped)

DashStrippedEntry(tpl, stripped) == LStripDashSpace(stripped)

\* A bullet line with a colon is no key: value line: it adds no top-level
\* field in any state, and while current_key is "Responsibilities" it appends
\* Entry(trimmed line) as one entry to the list of the last job and changes
\* nothing else.
BulletWithColonStep(Entry(_, _)) ==
    (ReadsLine /\ IsBullet(LineRead) /\ HasColon(LineRead)) =>
        /\ status' = "scanning" => DOMAIN resume_data' = DOMAIN resume_data
        /\ current_key = Key(RESPONSIBILITIES) =>
              /\ status' = "scanning"
              /\ current_key' = current_key
              /\ HasLastJob(resume_data)
              /\ RESPONSIBILITIES \in DOMAIN LastJob(resume_data)
              /\ resume_data' =
                    WithResponsibility(resume_data, Entry(template, Strip(LineRead)))

\* C6 (as amended): in both variants a line that starts with a bullet dash
\* and holds a colon is never split as key: value; inside a Responsibilities
\* block (current_key is "Responsibilities") the whole trimmed line is
\* appended as exactly one list entry, with the dash stripped in template 2
\* and kept in template 1, and no top-level or job field is created or
\* overwritten.
C6_BulletWithColonIsOneEntry == [][BulletWithColonStep(EntryOf)]_vars

\* C6 as claimed: the entry is dash-stripped in both variants.
C6_BulletWithColonDashStripped == [][BulletWithColonStep(DashStrippedEntry)]_vars

\* A bullet with a colon has just been read under a Responsibilities: header.
C6_Witness ==
    /\ status = "scanning"
    /\ current_key = Key(RESPONSIBILITIES)
    /\ Len(text) >= 3
    /\ IsBullet(text[Len(text)]) /\ HasColon(text[Len(text)])
    /\ IsResponsibilitiesHeader(text[Len(text) - 1])
    /\ HasLastJob(resume_data)
    /\ LastJob(resume_data)[RESPONSIBILITIES].list =
            <<EntryOf(template, Strip(text[Len(text)]))>>

-----------------------------------------------------------------------------
(* C7 *)

\* The parser's state before the last line of the text was read
Before == Parse(template, Prefix(text, Len(text) - 1))

LastLine == text[Len(text)]

\* Every line of t after its last start marker is a job key line or a bullet.
OnlyJobLinesInOpenBlock(tpl, t) ==
    \A j \in 1..Len(t) :
        (\A i \in MarkerPositions(t) : i < j) =>
            \/ KeyValue(t[j]).some /\ KeyValue(t[j]).key \in JobKeys(tpl)
            \/ IsBullet(t[j])

\* The last line was read inside a job block that holds job lines only and
\* whose record is the last of Jobs.
ReadInJobBlock ==
    /\ status # "raised"
    /\ text # <<>>
    /\ JobOpen(Prefix(text, Len(text) - 1))
    /\ OnlyJobLinesInOpenBlock(template, Prefix(text, Len(text) - 1))
    /\ ~IsMarker(LastLine)
    /\ HasLastJob(Before.resume_data)

\* C7: anywhere inside a job block of job lines, also after its
\* Responsibilities: header, a job flat-key line writes its value into the
\* last job record under that key, and a Responsibilities: line goes to the
\* Responsibilities list of the last job record and nowhere else.
C7_JobKeysGoToCurrentJob ==
    (ReadInJobBlock /\ KeyValue(LastLine).some) =>
        /\ KeyValue(LastLine).key \in JobFlatKeys(template) =>
              /\ HasLastJob(resume_data)
              /\ KeyValue(LastLine).key \in DOMAIN LastJob(resume_data)
              /\ LastJob(resume_data)[KeyValue(LastLine).key] =
                    StrVal(KeyValue(LastLine).value)
        /\ KeyValue(LastLine).key = RESPONSIBILITIES =>
              /\ HasLastJob(resume_data)
              /\ RESPONSIBILITIES \in DOMAIN LastJob(resume_data)
              /\ LastJob(resume_data)[RESPONSIBILITIES].kind = "list"
              /\ DOMAIN resume_data = DOMAIN Before.resume_data

-----------------------------------------------------------------------------
(* C8 *)

\* current_key names a free-text field that is being accumulated.
Accumulating(tpl, ck) == ck.some /\ ck.key \in FreeTextKeys(tpl)

\* The lines that end (or restart) an accumulation: a job marker, and a
\* key: value line of a main key in template 1, of any key in template 2.
Interrupts(tpl, line) ==
    \/ IsMarker(line)
    \/ KeyValue(line).some /\ (tpl = 1 => KeyValue(line).key \in main_keys)

\* What a line adds to the field: template 1 skips a blank line and adds a
\* newline and the trimmed line; template 2 adds the line and a newline.
Addition(tpl, line) ==
    IF tpl = 1
    THEN IF Strip(line) = <<>> THEN <<>> ELSE <<NL>> \o Strip(line)
    ELSE line \o <<NL>>

\* The field k keeps its value and stops being the target, unless the line
\* is a key line of k itself; or the scan ends at the line (a start marker
\* raises in template 2 when Jobs holds a string).
StopsAccumulation(k) ==
    \/ KeyValue(LineRead).some /\ KeyValue(LineRead).key = k
    \/ status' = "raised" /\ IsJobStart(LineRead)
    \/ /\ status' = "scanning"
       /\ current_key' # Key(k)
       /\ k \in DOMAIN resume_data'
       /\ resume_data'[k] = resume_data[k]

\* The field k grows by add and stays the target; nothing else changes.
ContinuesAccumulation(k, add) ==
    /\ status' = "scanning"
    /\ current_key' = current_key
    /\ resume_data' = [resume_data EXCEPT ![k] = StrVal(@.str \o add)]

\* C8 (as amended): once a free-text top-level key is the accumulation
\* target, template 1 appends every later non-blank line, trimmed and after
\* a newline, that is neither a job marker nor a line of a main key (a
\* key: value line with an unrecognized key is appended and does not end the
\* accumulation), and stops only at a main key line or a job marker;
\* template 2 appends every later line that is no job marker and no
\* key: value line, untrimmed and followed by a newline, and stops at a job
\* marker and at every key: value line, of a recognized key or not.
C8_AccumulationUntilInterrupted ==
    [][ (ReadsLine /\ Accumulating(template, current_key)) =>
            /\ current_key.key \in DOMAIN resume_data
            /\ IF Interrupts(template, LineRead)
               THEN StopsAccumulation(current_key.key)
               ELSE ContinuesAccumulation(current_key.key,
                                          Addition(template, LineRead)) ]_vars

\* The keys a variant recognizes
RecognizedKeys(tpl) == TopLevelKeys(tpl) \cup JobKeys(tpl)

\* The field k has grown by the trimmed line, a newline before or after it.
AppendedTrimmed(k) ==
    /\ k \in DOMAIN resume_data'
    /\ \E before \in {<<>>, <<NL>>} : \E after \in {<<>>, <<NL>>} :
          resume_data'[k] =
              StrVal(resume_data[k].str \o before \o Strip(LineRead) \o after)

\* C8 as claimed: in both variants every non-blank line that is neither a
\* marker nor a line of a recognized key is appended trimmed and leaves the
\* field the target; a line with an unrecognized key does not end it.
C8_UnrecognizedKeyDoesNotInterrupt ==
    [][ ( /\ ReadsLine
          /\ Accumulating(template, current_key)
          /\ Strip(LineRead) # <<>>
          /\ ~IsMarker(LineRead)
          /\ ~(KeyValue(LineRead).some
                 /\ KeyValue(LineRead).key \in RecognizedKeys(template)) ) =>
            /\ current_key' = current_key
            /\ AppendedTrimmed(current_key.key) ]_vars

\* Template 1 has appended a line with an unrecognized key to Education.
C8_Witness ==
    /\ template = 1
    /\ Len(text) = 2
    /\ IsFreeTextHeader(1, text[1])
    /\ text[2] = LineRandomField
    /\ current_key = Key(KeyValue(text[1]).key)
    /\ resume_data[current_key.key] = StrVal(<<NL>> \o LineRandomField)

-----------------------------------------------------------------------------
(* C9 *)

\* This step reads, outside any job block, a key: value line whose key the
\* variant does not recognize.
ReadsUnknownKeyOutsideJob ==
    /\ ReadsLine
    /\ ~JobOpen(text)
    /\ KeyValue(LineRead).some
    /\ KeyValue(LineRead).key \notin RecognizedKeys(template)

\* Template 2 stores the ad-hoc field key -> value and resets current_key.
AdHocFieldCreated ==
    /\ status' = "scanning"
    /\ current_key' = None
    /\ resume_data' =
          Put(resume_data, KeyValue(LineRead).key, StrVal(KeyValue(LineRead).value))

\* The line changes nothing.
LineIgnored ==
    /\ status' = "scanning"
    /\ current_key' = current_key
    /\ resume_data' = resume_data

\* C9 (as amended): for a key: value line with an unrecognized key outside
\* any job block, the template-1 parser creates no new field: the line is
\* ignored, except that while a free-text field is being accumulated its
\* trimmed text is appended to that field; the template-2 parser creates an
\* ad-hoc top-level field mapping the trimmed key to the trimmed value.
C9_UnknownKeyOutsideJob ==
    [][ ReadsUnknownKeyOutsideJob =>
            IF template = 2 THEN AdHocFieldCreated
            ELSE /\ DOMAIN resume_data' = DOMAIN resume_data
                 /\ IF Accumulating(1, current_key)
                    THEN ContinuesAccumulation(current_key.key,
                                               <<NL>> \o Strip(LineRead))
                    ELSE LineIgnored ]_vars

\* C9 as claimed: template 1 ignores the line, template 2 creates the field.
C9_UnknownKeyIgnoredByTemplate1 ==
    [][ ReadsUnknownKeyOutsideJob =>
            IF template = 2 THEN AdHocFieldCreated ELSE LineIgnored ]_vars

\* Template 2 has stored RandomField -> x from a line outside any job block.
C9_Witness ==
    /\ template = 2
    /\ status = "scanning"
    /\ text # <<>>
    /\ LastLine = LineRandomField
    /\ ~JobOpen(text)
    /\ <<"RandomField">> \in DOMAIN resume_data
    /\ resume_data[<<"RandomField">>] = StrVal(<<"x">>)

-----------------------------------------------------------------------------
(* C10 *)

\* What a call gives its caller: an exception, or the record
Outcome(st) ==
    [raised |-> st.raised,
     record |-> IF st.raised THEN EmptyDict ELSE st.resume_data]

\* Line i of t is an end marker read while no job block is open.
IsUnmatchedEnd(t, i) == IsJobEnd(t[i]) /\ ~JobOpen(Prefix(t, i - 1))

\* A free-text field is being accumulated when line i of the text is read.
AccumulatingAt(i) ==
    Accumulating(template, Parse(template, Prefix(text, i - 1)).current_key)

\* The unmatched end marker just read raised nothing, left the record as it
\* was and cleared current_key.
UnmatchedEndOnlyClearsCurrentKey ==
    (text # <<>> /\ IsUnmatchedEnd(text, Len(text))) =>
        /\ status # "raised"
        /\ resume_data = Before.resume_data
        /\ current_key = None

\* C10 (as amended): in both variants an end marker read while no job block
\* is open raises no error and leaves the record unchanged; it only clears
\* current_key, so it ends a free-text accumulation in progress. The outcome
\* of the parse equals that of the same input without the line whenever no
\* free-text field is being accumulated where the line stands.
C10_UnmatchedEndClearsCurrentKey ==
    /\ UnmatchedEndOnlyClearsCurrentKey
    /\ \A i \in 1..Len(text) :
          (IsUnmatchedEnd(text, i) /\ ~AccumulatingAt(i)) =>
              Outcome(Parse(template, Without(text, i))) = Outcome(Here)

\* C10 as claimed: the outcome always equals that of the input without the
\* line; the end marker does not cut short a free-text field.
C10_UnmatchedEndIsNoOp ==
    /\ UnmatchedEndOnlyClearsCurrentKey
    /\ \A i \in 1..Len(text) :
          IsUnmatchedEnd(text, i) =>
              Outcome(Parse(template, Without(text, i))) = Outcome(Here)

\* A parse has returned whose input holds an unmatched end marker, read
\* while nothing was accumulated, with a line after it.
C10_Witness ==
    /\ status = "returned"
    /\ \E i \in 1..(Len(text) - 1) :
          /\ IsUnmatchedEnd(text, i)
          /\ ~AccumulatingAt(i)
          /\ Parse(template, Prefix(text, i - 1)).current_key # None

-----------------------------------------------------------------------------
(* C11 *)

\* C11: in both variants, a parse that has returned on an input none of
\* whose lines is a job marker gives a record with a Jobs field that is the
\* empty list.
C11_NoMarkersEmptyJobs ==
    (status = "returned" /\ MarkerPositions(text) = {}) =>
        /\ JOBS \in DOMAIN resume_data
        /\ resume_data[JOBS] = ListVal(<<>>)

\* A key: value line of the text has the key "Jobs".
HasJobsKeyLine(t) ==
    \E i \in 1..Len(t) : KeyValue(t[i]).some /\ KeyValue(t[i]).key = JOBS

\* C11 (as amended): a parse that has returned on an input without job
\* markers holds no job record. In template 1 the record has the Jobs field
\* it starts with, the empty list. In template 2 the record has no Jobs
\* field at all (the field is created by the first start marker), except
\* that a key: value line with the key "Jobs" makes an ad-hoc field Jobs
\* that holds a string.
C11_NoMarkersNoJobRecords ==
    (status = "returned" /\ MarkerPositions(text) = {}) =>
        IF template = 1
        THEN /\ JOBS \in DOMAIN resume_data
             /\ resume_data[JOBS] = ListVal(<<>>)
        ELSE /\ JOBS \in DOMAIN resume_data <=> HasJobsKeyLine(text)
             /\ JOBS \in DOMAIN resume_data => resume_data[JOBS].kind = "str"

\* Template 2 has returned a record with a field on an input of several
\* lines, none of them a marker or a Jobs: line.
C11_Witness ==
    /\ status = "returned"
    /\ template = 2
    /\ MarkerPositions(text) = {}
    /\ ~HasJobsKeyLine(text)
    /\ Len(text) >= 2
    /\ FULLNAME \in DOMAIN resume_data

-----------------------------------------------------------------------------
(* C12 *)

IsBlank(line) == Strip(line) = <<>>

\* The blank line just read was retained inside the free-text field that is
\* being accumulated, and nothing else changed.
EmbeddedBlankLine ==
    /\ Accumulating(template, Before.current_key)
    /\ Before.current_key.key \in DOMAIN Before.resume_data
    /\ LET k == Before.current_key.key
           old == Before.resume_data[k] IN
        /\ old.kind = "str"
        /\ resume_data = Put(Before.resume_data, k,
                             StrVal(old.str \o LastLine \o <<NL>>))

\* C12: in both variants and in every state of the scan, a blank line
\* raises nothing, leaves current_key as it was and adds no content: the
\* record is unchanged, or at most the blank line is retained inside the
\* free-text field being accumulated.
C12_BlankLineAddsNothing ==
    (text # <<>> /\ IsBlank(LastLine)) =>
        /\ status # "raised"
        /\ current_key = Before.current_key
        /\ resume_data = Before.resume_data \/ EmbeddedBlankLine

\* The reading of C12 for template 1 alone, which the code meets.
C12_Template1BlankLineAddsNothing == template = 1 => C12_BlankLineAddsNothing

-----------------------------------------------------------------------------
(* C13 *)

\* The text of a line before and after its first colon, read off the line
\* from the left.
RECURSIVE BeforeFirstColon(_)
BeforeFirstColon(line) ==
    IF line = <<>> \/ Head(line) = COLON THEN <<>>
    ELSE <<Head(line)>> \o BeforeFirstColon(Tail(line))

RECURSIVE AfterFirstColon(_)
AfterFirstColon(line) ==
    IF line = <<>> THEN <<>>
    ELSE IF Head(line) = COLON THEN Tail(line)
    ELSE AfterFirstColon(Tail(line))

IsKeyValueLine(line) == HasColon(line) /\ ~StartsWithDash(Strip(line))

KeyBeforeFirstColon(line) == Strip(BeforeFirstColon(line))
ValueAfterFirstColon(line) == Strip(AfterFirstColon(line))

\* d[k] is there and is the string s
FieldIs(d, k, s) == k \in DOMAIN d /\ d[k] = StrVal(s)

\* The last job record has the field k with the string s.
JobFieldIs(rd, k, s) == HasLastJob(rd) /\ FieldIs(LastJob(rd), k, s)

\* The last entry of the Responsibilities of the last job is s.
LastResponsibilityIs(rd, s) ==
    /\ HasLastJob(rd)
    /\ RESPONSIBILITIES \in DOMAIN LastJob(rd)
    /\ LastJob(rd)[RESPONSIBILITIES].kind = "list"
    /\ LastJob(rd)[RESPONSIBILITIES].list # <<>>
    /\ Last(LastJob(rd)[RESPONSIBILITIES].list) = s

\* The line just read is handled as a job key line: each parser does so
\* only while current_key is "Jobs".
ReadAsJobKey(k) ==
    /\ Before.current_key = Key(JOBS)
    /\ k \in JobKeys(template)
    /\ template = 2 => T2GetJobs(Before.resume_data)

\* The line just read is handled as a top-level key line: template 1 looks
\* for a main key before anything else, template 2 for a free-text key; the
\* other top-level keys of template 2 are stored by its last branch, which
\* is not reached while current_key is "Jobs".
ReadAsTopLevelKey(k) ==
    IF template = 1 THEN k \in main_keys
    ELSE \/ k \in FreeTextKeys2
         \/ /\ k \in TopLevelKeys(2)
            /\ ~(Before.current_key = Key(JOBS) /\ T2GetJobs(Before.resume_data))

\* The line just read is a key: value line whose key, the text before the
\* first colon, is handled as a recognized key where the line stands.
ReadsRecognizedKey ==
    /\ status # "raised"
    /\ text # <<>>
    /\ IsKeyValueLine(LastLine)
    /\ LET k == KeyBeforeFirstColon(LastLine) IN
          ReadAsTopLevelKey(k) \/ ReadAsJobKey(k)

\* The value v of the key: value line just read, of the key k, is stored
\* where the key belongs; Seed(k, v) is the content of a top-level field.
ValueStoredAs(k, v, Seed(_, _)) ==
    IF ReadAsTopLevelKey(k) THEN FieldIs(resume_data, k, Seed(k, v))
    ELSE IF k = RESPONSIBILITIES
         THEN v # <<>> =>
                LastResponsibilityIs(resume_data,
                    IF template = 2 THEN LStripDashSpace(v) ELSE v)
    ELSE JobFieldIs(resume_data, k, v)

ValueItself(k, v) == v

\* Template 2 seeds a free-text field with the value and a newline.
ValueSeeded(k, v) ==
    IF template = 2 /\ k \in FreeTextKeys2 THEN v \o <<NL>> ELSE v

\* C13 (as amended): in both variants, a key: value line with a recognized
\* key is split at its first colon only, every later colon kept in the
\* value ("Description: revenue growth: 20%" stores "revenue growth: 20%").
\* What is stored is the trimmed text after the first colon, except that
\* template 2 stores it followed by a newline for its free-text keys.
C13_SplitAtFirstColon ==
    ReadsRecognizedKey =>
        ValueStoredAs(KeyBeforeFirstColon(LastLine),
                      ValueAfterFirstColon(LastLine), ValueSeeded)

\* C13 as claimed: the stored value is always the trimmed text after the
\* first colon itself.
C13_StoredValueIsTrimmedRest ==
    ReadsRecognizedKey =>
        ValueStoredAs(KeyBeforeFirstColon(LastLine),
                      ValueAfterFirstColon(LastLine), ValueItself)

\* Template 1 has read the line Description: revenue growth: 20% inside a
\* job block and its record holds the value with the second colon.
C13_Witness ==
    /\ template = 1
    /\ text # <<>>
    /\ LastLine = LineDescription
    /\ ReadsRecognizedKey
    /\ JobFieldIs(resume_data, <<"Description">>,
                  <<"revenue", SP, "growth", COLON, SP, "20%">>)

\* Template 2 has stored a top-level value and a job value that hold a colon.
C13_WitnessTemplate2 ==
    /\ template = 2
    /\ status = "returned"
    /\ FieldIs(resume_data, <<"Education">>, <<"a", COLON, SP, "b", NL>>)
    /\ JobFieldIs(resume_data, <<"Role">>, <<"a", COLON, SP, "b">>)

-----------------------------------------------------------------------------
(* C16 *)

\* The top-level keys of the documented schema of each variant
DocumentedTopLevelKeys(tpl) ==
    IF tpl = 1
    THEN { FULLNAME, <<"Professional Summary">>, <<"Roles">>,
           <<"Technologies">>, <<"Education">>, <<"Certifications">>,
           <<"Geographic locale">> }
    ELSE { FULLNAME, <<"Designation">>, <<"ProfessionalOverviewSummary">>,
           <<"ProfessionalOverviewTable">>, <<"KeyEngagementsTable">>,
           <<"Education">>, <<"Publications">>,
           <<"ProfessionalTrainingCertifications">>, <<"GeographicLocale">> }

\* The Jobs field is as it was before the line just read.
JobsUntouched ==
    /\ JOBS \in DOMAIN resume_data <=> JOBS \in DOMAIN Before.resume_data
    /\ JOBS \in DOMAIN resume_data =>
          resume_data[JOBS] = Before.resume_data[JOBS]

\* C16: in both variants and in every state of the scan, also inside a job
\* block and inside a Responsibilities list, a key: value line whose key is
\* a top-level key of the variant's schema stores its value as the content
\* of that top-level field and writes to no job record.
C16_TopLevelKeyStoresField ==
    (/\ text # <<>>
     /\ KeyValue(LastLine).some
     /\ KeyValue(LastLine).key \in DocumentedTopLevelKeys(template)) =>
        /\ status # "raised"
        /\ FieldIs(resume_data, KeyValue(LastLine).key,
                   ValueSeeded(KeyValue(LastLine).key, KeyValue(LastLine).value))
        /\ JobsUntouched

\* The reading of C16 for template 1 alone, which the code meets.
C16_Template1TopLevelKeyStoresField ==
    template = 1 => C16_TopLevelKeyStoresField

-----------------------------------------------------------------------------
(* C17 *)

EXPERIENCE_SUMMARY == <<"Professional and Experience Summary">>

\* C17: in every state of the template-1 parser the keys of the record are
\* among Jobs and the seven documented top-level keys; no other key, such
\* as "Professional and Experience Summary", becomes a field.
C17_OnlyDocumentedFields ==
    template = 1 =>
        DOMAIN resume_data \subseteq {JOBS} \cup DocumentedTopLevelKeys(1)

\* C17 (as amended): in every state of the template-1 parser the keys of
\* the record are among Jobs, the seven documented top-level keys and
\* "Professional and Experience Summary", the eighth key the parser
\* recognizes; no other key becomes a field.
C17_OnlyMainKeyFields ==
    template = 1 =>
        DOMAIN resume_data \subseteq
            {JOBS} \cup DocumentedTopLevelKeys(1) \cup {EXPERIENCE_SUMMARY}

\* Template 1 has read a line of the eighth key and lines of keys it does
\* not recognize at the top level, inside and outside a job block.
C17_Witness ==
    /\ template = 1
    /\ status = "returned"
    /\ EXPERIENCE_SUMMARY \in DOMAIN resume_data
    /\ \E i, j \in 1..Len(text) :
          /\ i < j
          /\ text[i] = LineDesignation
          /\ text[j] = LineRole
          /\ ~JobOpen(Prefix(text, j))

-----------------------------------------------------------------------------
(* C19 *)

\* The elements of Jobs; none when the field is missing or is no list
JobsOf(rd) ==
    IF JOBS \in DOMAIN rd /\ rd[JOBS].kind = "list" THEN rd[JOBS].list
    ELSE <<>>

\* The line just read may have modified the i-th element of Jobs: it is the
\* last one, and the line was read inside the block that appended it.
MayModify(i) ==
    /\ i = Len(JobsOf(Before.resume_data))
    /\ JobOpen(Prefix(text, Len(text) - 1))
    /\ ~IsJobStart(LastLine)

\* C19: in both variants a line modifies at most the last job record of
\* Jobs: every element is kept as it is by a line read after a later start
\* marker, and the last one by a line read after its end marker.
C19_OnlyLastJobModified ==
    (text # <<>> /\ status # "raised") =>
        /\ Len(JobsOf(resume_data)) >= Len(JobsOf(Before.resume_data))
        /\ \A i \in 1..Len(JobsOf(Before.resume_data)) :
              ~MayModify(i) =>
                  JobsOf(resume_data)[i] = JobsOf(Before.resume_data)[i]

\* The reading of C19 for template 1 alone, which the code meets.
C19_Template1OnlyLastJobModified == template = 1 => C19_OnlyLastJobModified

-----------------------------------------------------------------------------
(* C20 *)

\* The line just read is a Responsibilities: line, with or without a value.
IsResponsibilitiesLine(line) ==
    IsKeyValueLine(line) /\ KeyBeforeFirstColon(line) = RESPONSIBILITIES

\* The last job record has a Responsibilities list.
LastJobHasList(rd) ==
    /\ HasLastJob(rd)
    /\ RESPONSIBILITIES \in DOMAIN LastJob(rd)
    /\ LastJob(rd)[RESPONSIBILITIES].kind = "list"

\* C20: at every point of the scan of the template-1 parser, current_key is
\* None, one of the parser's top-level keys, "Jobs" or "Responsibilities";
\* it is "Jobs" or "Responsibilities" only when Jobs is non-empty; it
\* becomes "Responsibilities" only by a Responsibilities: line read while
\* it is "Jobs"; and while it is "Responsibilities" the last job record has
\* a Responsibilities list.
C20_CurrentKeyDiscipline ==
    template = 1 =>
        /\ \/ current_key = None
           \/ current_key.some /\
                current_key.key \in main_keys \cup {JOBS, RESPONSIBILITIES}
        /\ current_key \in {Key(JOBS), Key(RESPONSIBILITIES)} =>
              JobsOf(resume_data) # <<>>
        /\ (/\ text # <<>>
            /\ current_key = Key(RESPONSIBILITIES)
            /\ Before.current_key # Key(RESPONSIBILITIES)) =>
              /\ Before.current_key = Key(JOBS)
              /\ IsResponsibilitiesLine(LastLine)
        /\ current_key = Key(RESPONSIBILITIES) => LastJobHasList(resume_data)

\* Template 1 has read a Responsibilities: line outside a job block, which
\* started no list, and then one inside a job block, which did.
C20_Witness ==
    /\ template = 1
    /\ current_key = Key(RESPONSIBILITIES)
    /\ Len(text) >= 3
    /\ IsResponsibilitiesLine(text[1])
    /\ Parse(1, Prefix(text, 1)).current_key = None
    /\ IsResponsibilitiesLine(LastLine)
    /\ Before.current_key = Key(JOBS)
    /\ LastJobHasList(resume_data)

-----------------------------------------------------------------------------
(* C14 *)

\* Call c stands where the same parser, run alone on the lines the call
\* has read, stands after them: the same record, the same current_key, the
\* same exception or none.
AsRunAlone(c) ==
    /\ CallHere(c) = Parse(calls[c].template, calls[c].text)
    /\ calls[c].status = "returned" => calls[c].text # <<>>

\* C14: two calls of the parsers, on the same input or on different ones,
\* their steps interleaved in any order, each stand at every step, and at
\* their return, where they stand when run alone: the result of a call is
\* a function of its input text only.
C14_CallsIndependent == \A c \in Calls : AsRunAlone(c)

\* Both calls have returned, after steps of the second call that came
\* between the steps of the first, in the middle of a free-text field of
\* the first and a Responsibilities list of the second.
C14_Witness ==
    /\ \A c \in Calls : calls[c].status = "returned"
    /\ calls[1].text = <<LineEducation, LineText>>
    /\ calls[2].text = <<LineJobStart, LineResponsibilities>>
    /\ calls[1].template = calls[2].template
    /\ <<"Education">> \in DOMAIN calls[1].resume_data
    /\ JOBS \in DOMAIN calls[2].resume_data

-----------------------------------------------------------------------------
(* C18 *)

\* The pipeline prompt -> generate -> parse -> build of the request ended
\* without an exception.
PipelineDone ==
    /\ request.template_id \in {"template1", "template2"}
    /\ request.gemini_text \in GeminiTexts
    /\ ~Parse(TemplateOf(request.template_id), request.gemini_text).raised
    /\ request.docx_buffer

\* C18: every failure of a request (the extractor raises, the extracted
\* text is empty, generation, parsing or building fails) leaves
\* convert_resume_endpoint as an HTTPException of status 400 or 500 with a
\* detail message; no other exception leaves the handler; and the DOCX
\* stream is returned only after an extraction that gave non-empty text and
\* a pipeline that ended without an exception.
C18_FailuresBecomeHTTPExceptions ==
    /\ request.response.kind # "exception"
    /\ request.response.kind = "HTTPException" =>
          /\ request.response.status_code \in {400, 500}
          /\ request.response.detail # ""
    /\ request.response.kind = "stream" =>
          request.text # "" /\ PipelineDone

\* The part of C18 that the code meets: the failures from the empty text on
\* become HTTPExceptions, and the stream is returned only after a pipeline
\* that ended without an exception.
C18_FailuresAfterExtraction ==
    /\ request.response.kind = "exception" =>
          request.response.detail = "extractor"
    /\ request.response.kind = "HTTPException" =>
          /\ request.response.status_code \in {400, 500}
          /\ request.response.detail # ""
    /\ request.response.kind = "stream" =>
          request.text # "" /\ PipelineDone

-----------------------------------------------------------------------------
(* C15 *)

\* The tagged text of a record: the top-level fields as Key: value lines,
\* a value of several lines continued on the lines after its key line, then
\* one block per job record between the markers, its flat fields first and
\* its Responsibilities as a header line followed by one line per entry.

\* The elements of a finite set, in some order
RECURSIVE SeqOf(_)
SeqOf(S) ==
    IF S = {} THEN <<>>
    ELSE LET x == CHOOSE y \in S : TRUE IN <<x>> \o SeqOf(S \ {x})

\* The concatenation of the sequences f(x[1]), f(x[2]), ...
RECURSIVE FlatMap(_, _)
FlatMap(f(_), xs) ==
    IF xs = <<>> THEN <<>> ELSE f(Head(xs)) \o FlatMap(f, Tail(xs))

\* s.split("\n")
RECURSIVE SplitAtNewlines(_)
SplitAtNewlines(s) ==
    IF \A i \in 1..Len(s) : s[i] # NL THEN <<s>>
    ELSE LET i == CHOOSE n \in 1..Len(s) :
                    s[n] = NL /\ \A m \in 1..(n - 1) : s[m] # NL
         IN <<SubSeq(s, 1, i - 1)>> \o SplitAtNewlines(SubSeq(s, i + 1, Len(s)))

\* The lines of a value; a newline at its end ends its last line.
LinesOf(s) ==
    LET p == SplitAtNewlines(s) IN
    IF Len(p) > 1 /\ p[Len(p)] = <<>> THEN SubSeq(p, 1, Len(p) - 1) ELSE p

\* The key line of a field and the lines that continue its value
FieldLines(k, s) ==
    <<k \o <<COLON, SP>> \o Head(LinesOf(s))>> \o Tail(LinesOf(s))

\* The line of a Responsibilities entry. As a bullet-dash line it is the
\* entry after a dash, or the entry itself when it starts with a dash. As
\* the line it was read from it is the entry after a dash in template 2,
\* which stores the entry without its dash, and the entry itself in
\* template 1, which stores the trimmed line.
DashBullet(tpl, e) ==
    IF e # <<>> /\ Head(e) = DASH THEN e ELSE <<DASH, SP>> \o e
StoredBullet(tpl, e) == IF tpl = 1 THEN e ELSE <<DASH, SP>> \o e

JobBlock(tpl, job, Bullet(_, _)) ==
    LET flat(k) == FieldLines(k, job[k].str)
        bullet(e) == <<Bullet(tpl, e)>>
    IN  <<JOB_START>>
        \o FlatMap(flat, SeqOf(DOMAIN job \ {RESPONSIBILITIES}))
        \o (IF RESPONSIBILITIES \in DOMAIN job
            THEN <<LineResponsibilities>>
                 \o FlatMap(bullet, job[RESPONSIBILITIES].list)
            ELSE <<>>)
        \o <<JOB_END>>

\* The fields of the record that are strings
StringFields(rd) == { k \in DOMAIN rd : rd[k].kind = "str" }

Serialize(tpl, rd, Bullet(_, _)) ==
    LET field(k) == FieldLines(k, rd[k].str)
        block(e) == JobBlock(tpl, e.job, Bullet)
    IN  FlatMap(field, SeqOf(StringFields(rd)))
        \o FlatMap(block, JobsOf(rd))

\* The record has a tagged text: every element of Jobs is a job record.
Serializable(rd) ==
    \A i \in 1..Len(JobsOf(rd)) : IsJobRecord(JobsOf(rd)[i])

\* The record returned is the record that the same parser returns on the
\* tagged text of the record.
RoundTrip(Bullet(_, _)) ==
    (status = "returned" /\ Serializable(resume_data)) =>
        Outcome(Parse(template, Serialize(template, resume_data, Bullet)))
            = [raised |-> FALSE, record |-> resume_data]

\* C15: in each variant, the record returned by the parser, written back
\* as tagged text (top-level Key: value lines, free-text values on several
\* lines, job blocks between the markers with a Responsibilities header and
\* a bullet-dash line for every entry) and parsed again by the same parser,
\* is returned again. It is stated for the inputs made of a name line, the
\* markers, the Responsibilities: header, bullet lines and plain lines.
PlainJobInput(t) ==
    \A i \in 1..Len(t) :
        t[i] \in { LineFullName, LineJobStart, LineJobEnd,
                   LineResponsibilities, LineBullet, LineText }

C15_RoundTripWithDashBullets == PlainJobInput(text) => RoundTrip(DashBullet)

\* C15 (as amended): the round trip returns the record again when every
\* Responsibilities entry is written as the line it was read from: after a
\* dash in template 2, and as it is stored in template 1, whose entries
\* are the trimmed lines and carry the dash only when the line had one.
C15_RoundTrip == RoundTrip(StoredBullet)

\* With bullet-dash lines the round trip holds in template 2, and in
\* template 1 for the records whose every entry starts with a dash.
EveryEntryDashed(rd) ==
    \A i \in 1..Len(JobsOf(rd)) :
        LET job == JobsOf(rd)[i].job IN
        RESPONSIBILITIES \in DOMAIN job =>
            \A n \in 1..Len(job[RESPONSIBILITIES].list) :
                StartsWithDash(job[RESPONSIBILITIES].list[n])

C15_RoundTripOfDashedEntries ==
    (template = 2 \/ (Serializable(resume_data) /\ EveryEntryDashed(resume_data)))
        => C15_RoundTripWithDashBullets

\* A parse has returned a record with a top-level field and a job that
\* has a Responsibilities entry, and one with a free-text field of several
\* lines.
HasFieldAndEntry(rd) ==
    /\ StringFields(rd) # {}
    /\ \E i \in 1..Len(JobsOf(rd)) :
          LET job == JobsOf(rd)[i].job IN
          /\ RESPONSIBILITIES \in DOMAIN job
          /\ job[RESPONSIBILITIES].kind = "list"
          /\ job[RESPONSIBILITIES].list # <<>>

C15_Witness ==
    /\ status = "returned"
    /\ Serializable(resume_data)
    /\ HasFieldAndEntry(resume_data)
    /\ Len(Serialize(template, resume_data, StoredBullet)) >= 5

C15_WitnessFreeText ==
    /\ status = "returned"
    /\ Serializable(resume_data)
    /\ \E k \in StringFields(resume_data) :
          Len(LinesOf(resume_data[k].str)) >= 3

====
